---- MODULE Spec2Model ----
(***************************************************************************)
(* Voice interaction loop of the chat front-end: the speech capture hook   *)
(* (useSpeechRecognition), the speech playback hook (useSpeechSynthesis),  *)
(* the backend call (sendChatMessage) and the orchestrator (App).          *)
(*                                                                         *)
(* Texts are sequences of tokens: a token is one character (" " or a       *)
(* letter) or one whole fixed message.  Timers are untimed: a pending      *)
(* timer may fire at any later step.  Engine slots are reused once the     *)
(* engine instance they held has ended.                                    *)
(*                                                                         *)
(* Specifications, all over the same state and the same actions:           *)
(*   Spec         the voice loop (voice toggle, manual microphone, backend, *)
(*                playback), up to MaxUserSteps actions of the user;        *)
(*   SpecCapture  the capture controller alone, up to MaxPresses actions   *)
(*                of the user, the backend not answering;                   *)
(*   SpecChat     typed chat, up to MaxPresses actions of the user;        *)
(*   SpecSynth    the playback controller under direct calls;              *)
(*   SpecEntry    Spec with handleVoiceConversation also called directly;  *)
(*   SpecReset    SpecCapture with resetTranscript also called directly;   *)
(*   SpecDisplay  getCurrentVoiceState called directly, under every        *)
(*                combination of the flags;                                 *)
(*   SpecApi      sendChatMessage called directly, against every answer of *)
(*                the network and the backend.                             *)
(***************************************************************************)
EXTENDS Integers, Sequences, FiniteSets, TLC

(* ------------------------------ bounds --------------------------------- *)
MaxEngines == 2
MaxUtter == 2
MaxAcc == 2
MaxMessages == 2
MaxPending == 2
MaxUserSteps == 2
MaxPresses == 3

(* ------------------------------ texts ---------------------------------- *)
Empty == <<>>
Space == " "

IsBlankChar(c) == c = Space

RECURSIVE TrimLeft(_)
TrimLeft(s) ==
  IF s = Empty THEN Empty
  ELSE IF IsBlankChar(Head(s)) THEN TrimLeft(Tail(s)) ELSE s

RECURSIVE TrimRight(_)
TrimRight(s) ==
  IF s = Empty THEN Empty
  ELSE IF IsBlankChar(s[Len(s)]) THEN TrimRight(SubSeq(s, 1, Len(s) - 1)) ELSE s

(* String.prototype.trim *)
Trim(s) == TrimRight(TrimLeft(s))

(* JavaScript truthiness of a string: non-empty *)
Truthy(s) == s # Empty

(* what one onresult event carries: the concatenation of its final results *)
(* and the concatenation of its interim results                            *)
FinalChunks == {Empty, <<" ">>, <<"a">>}
CaptureChunks == {<<"a">>}
InterimChunks == {Empty, <<"i">>}

(* the trivial texts handleVoiceConversation can be called with *)
TrivialTexts == {Empty, <<" ">>}

(* backend reply texts: empty, whitespace-only, non-blank *)
Replies == {Empty, <<" ">>, <<"s">>}

(* texts the user can have typed into the compose box *)
Typed == {Empty, <<" ">>, <<"t">>}

(* fixed messages of the program *)
InvalidKeyText == <<"Gecersiz API anahtari. Lutfen API anahtarinizi kontrol edin.">>
NetworkErrorText == <<"Ag baglanti hatasi. Internet baglantinizi kontrol edin.">>
UnexpectedErrorText == <<"Beklenmeyen bir hata olustu">>
GenericApologyText == <<"Uzgunum, bir hata olustu. Lutfen tekrar deneyin.">>
StatusErrorText(status) ==
  IF status = 403 THEN <<"API yanit hatasi: 403">> ELSE <<"API yanit hatasi: 500">>
BodyMessageText == <<"body.message">>
BodyErrorText == <<"body.error">>
NullWordText == <<"null">>

(* --------------------------- sendChatMessage --------------------------- *)
(* What the network and the backend can answer.  fetch: "response" or the  *)
(* kind of rejection (a TypeError whose message holds 'fetch', another     *)
(* TypeError, any other error); body.kind: "unparseable" (response.json()  *)
(* rejects), "null" (JSON null) or "object"; JsNull stands for a field     *)
(* that is null or missing.                                                *)
JsNull == <<"#null">>
Statuses == {200, 403, 500}
NoBody == [kind |-> "unparseable", message |-> JsNull, error |-> JsNull, textResponse |-> Empty]
Bodies ==
  {NoBody, [NoBody EXCEPT !.kind = "null"]} \cup
  [kind : {"object"},
   message : {JsNull, BodyMessageText},
   error : {JsNull, Empty, NullWordText, BodyErrorText},
   textResponse : Replies]
Responses ==
  [fetch : {"TypeErrorFetch", "TypeErrorOther", "OtherError"}, status : {200}, body : {NoBody}]
  \cup [fetch : {"response"}, status : Statuses, body : Bodies]

ResponseOk(status) == status >= 200 /\ status <= 299

(* JavaScript truthiness of a field that may be null *)
FieldTruthy(v) == v # JsNull /\ Truthy(v)

Thrown(kind, msg) == [ok |-> FALSE, error |-> kind, message |-> msg, data |-> NoBody]
Returned(body) == [ok |-> TRUE, error |-> "none", message |-> Empty, data |-> body]

(* the error message of a non-2xx response *)
NotOkMessage(r) ==
  IF r.body.kind = "unparseable" THEN StatusErrorText(r.status)
  ELSE IF r.status = 403 THEN InvalidKeyText
  ELSE IF r.body.kind = "null" THEN StatusErrorText(r.status)
  ELSE IF FieldTruthy(r.body.message) THEN r.body.message
  ELSE IF FieldTruthy(r.body.error) THEN r.body.error
  ELSE StatusErrorText(r.status)

(* data.error && data.error !== 'null' && data.error !== null *)
BodyErrorSetWheneverNotNull(body) == body.error # JsNull
BodyErrorSet(body) == FieldTruthy(body.error) /\ body.error # NullWordText

(* the try block: what it returns or throws *)
TryBlock(r) ==
  IF r.fetch # "response" THEN Thrown(r.fetch, Empty)
  ELSE IF ~ResponseOk(r.status) THEN Thrown("ChatApiError", NotOkMessage(r))
  ELSE IF r.body.kind = "unparseable" THEN Thrown("SyntaxError", Empty)
  ELSE IF r.body.kind = "null" THEN Thrown("TypeErrorOther", Empty)
  ELSE IF BodyErrorSet(r.body) THEN Thrown("ChatApiError", r.body.error)
  ELSE Returned(r.body)

(* the catch block *)
sendChatMessageWithoutCatch(r) == TryBlock(r)
sendChatMessage(r) ==
  LET t == TryBlock(r) IN
  IF t.ok THEN t
  ELSE IF t.error = "ChatApiError" THEN t
  ELSE IF t.error = "TypeErrorFetch" THEN Thrown("ChatApiError", NetworkErrorText)
  ELSE Thrown("ChatApiError", UnexpectedErrorText)

(* what the callers of sendChatMessage can observe: the thrown message or  *)
(* the reply text                                                          *)
Observed(o) == [ok |-> o.ok, error |-> o.error, message |-> o.message,
                textResponse |-> o.data.textResponse]
(* the answers the backend gives in the runs of the application: the network  *)
(* fails, or a 2xx reply arrives with each kind of reply text                   *)
ReplyBody(t) == [kind |-> "object", message |-> JsNull, error |-> JsNull, textResponse |-> t]
AppResponses ==
  {[fetch |-> "TypeErrorFetch", status |-> 200, body |-> NoBody]}
  \cup {[fetch |-> "response", status |-> 200, body |-> ReplyBody(t)] : t \in Replies}
Outcomes == {Observed(sendChatMessage(r)) : r \in AppResponses}

(* error instanceof ChatApiError ? error.message : generic apology *)
ErrorMessageOf(o) == IF o.error = "ChatApiError" THEN o.message ELSE GenericApologyText

(* ------------------------------- state --------------------------------- *)
VARIABLES
  (* platform *)
  mounted,                    \* the mount effects have run
  hasRecognition,             \* window.SpeechRecognition || webkitSpeechRecognition
  hasSynthesis,               \* 'speechSynthesis' in window
  synthCopy,                  \* which of the two definitions of useSpeechSynthesis is built
  (* App *)
  messages, input, isLoading, autoSpeak, isVoiceMode, voiceModeRef,
  calls,                      \* backend calls in flight
  recoveryTimers,             \* pending 2 s timers of the catch block of handleVoiceConversation
  speakTimers,                \* pending 500 ms auto-speak timers of handleSendMessage
  (* useSpeechRecognition *)
  isListening, transcript, speechRecognitionSupported,
  recognitionRef, onSpeechEndRef, finalTranscriptRef, isVoiceModeRef,
  timeoutRef,                 \* TRUE: the restart timer is pending
  silenceTimeoutRef,          \* the engine whose onresult armed the pending silence timer, or 0
  probes,                     \* startListening calls suspended at checkMicrophonePermission
  engines,                    \* engine slot -> state of the SpeechRecognition instance
  graceTimers,                \* pending 300 ms timers of the silence timeout callback: the text
                              \* each will hand over (with, as history, the trimmed chunks of
                              \* the engine that armed the silence timer, and whether this is
                              \* the first hand-over of that engine)
  (* useSpeechSynthesis *)
  isSpeaking, speechSynthesisSupported, onEndCallbackRef,
  utterances,                 \* utterance slot -> state of the SpeechSynthesisUtterance
  settleTimers,               \* pending settle-delay timers, each holding a callback
  (* history *)
  restartOrigin,              \* who armed the pending restart timer
  restartCancelled,           \* the last stopListening cleared a pending restart timer
  engChunks,                  \* engine slot -> final chunks the instance has delivered
  cbs,                        \* callback -> what happened to it
  lastOp,                     \* the step taken last
  apiCall,                    \* the direct call of sendChatMessage: the answer it meets and
                              \* what it returns or throws
  voiceState,                 \* the direct call of getCurrentVoiceState: the flags it reads
                              \* and what it returns
  staleRecoveries,            \* how many of the pending recovery timers were already pending
                              \* when the user last left voice mode
  sessionFaulted,             \* since voice mode was entered, the permission probe has failed
                              \* or an engine has reported an error that onerror does not
                              \* answer with a restart
  userBudget                  \* how many more times the user acts

platformVars == <<mounted, hasRecognition, hasSynthesis, synthCopy,
                  speechRecognitionSupported, speechSynthesisSupported>>
renderVars == <<isVoiceMode, isListening, transcript, finalTranscriptRef, input>>
appVars == <<messages, isLoading, autoSpeak, voiceModeRef, calls, recoveryTimers, speakTimers>>
restartVars == <<timeoutRef, restartOrigin, restartCancelled>>
recVars == <<recognitionRef, onSpeechEndRef, isVoiceModeRef, silenceTimeoutRef,
             probes, engines, engChunks, graceTimers>>
synVars == <<isSpeaking, onEndCallbackRef, utterances, settleTimers, cbs>>
vars == <<platformVars, renderVars, appVars, restartVars, recVars, synVars, lastOp, userBudget,
          apiCall, voiceState, staleRecoveries, sessionFaulted>>

EngineIds == 1..MaxEngines
UttIds == 1..MaxUtter

(* cut: the utterance whose speak replaced this callback while the utterance of *)
(* this one was being spoken, or 0                                              *)
NoCb == [reg |-> FALSE, invoked |-> 0, stopped |-> FALSE, superseded |-> FALSE, proper |-> TRUE,
         cut |-> 0]

Op(name, flag) == [op |-> name, flag |-> flag]

(* getCurrentVoiceState has not been called directly *)
NoVoiceState ==
  [isLoading |-> FALSE, isSpeaking |-> FALSE, isListening |-> FALSE, state |-> "none"]

(* no direct call of sendChatMessage has been made *)
NoApiCall ==
  [phase |-> "idle", response |-> [fetch |-> "none", status |-> 200, body |-> NoBody],
   outcome |-> Thrown("none", Empty)]

(* useState(false) of isSupported in the first render of useSpeechRecognition: *)
(* the value the closure of the memoised restartListening keeps seeing          *)
FirstRenderIsSupported == FALSE

(* the state after the first render, before the mount effects *)
Begin ==
  /\ mounted = FALSE
  /\ hasRecognition \in BOOLEAN
  /\ hasSynthesis \in BOOLEAN
  /\ synthCopy \in {1, 2}
  /\ messages = <<>> /\ input = Empty /\ isLoading = FALSE /\ autoSpeak = TRUE
  /\ isVoiceMode = FALSE /\ voiceModeRef = FALSE
  /\ calls = <<>> /\ recoveryTimers = 0 /\ speakTimers = <<>>
  /\ isListening = FALSE /\ transcript = Empty /\ speechRecognitionSupported = FALSE
  /\ recognitionRef = 0 /\ onSpeechEndRef = "null" /\ finalTranscriptRef = Empty
  /\ isVoiceModeRef = FALSE /\ timeoutRef = FALSE /\ silenceTimeoutRef = 0
  /\ probes = <<>> /\ engines = [e \in EngineIds |-> "none"] /\ graceTimers = <<>>
  /\ isSpeaking = FALSE /\ speechSynthesisSupported = FALSE /\ onEndCallbackRef = 0
  /\ utterances = [u \in UttIds |-> "none"] /\ settleTimers = {}
  /\ restartOrigin = "none" /\ restartCancelled = FALSE
  /\ engChunks = [e \in EngineIds |-> Empty]
  /\ cbs = [u \in UttIds |-> NoCb]
  /\ lastOp = Op("init", FALSE)
  /\ apiCall = NoApiCall
  /\ voiceState = NoVoiceState
  /\ staleRecoveries = 0
  /\ sessionFaulted = FALSE

Init == Begin /\ userBudget = MaxUserSteps

(* history of a step of the platform, and of a step of the user *)
(* the recovery timers fire in the order they were armed (one delay for all): *)
(* those left behind by a voice-mode exit fire before any armed after it       *)
RecoveriesLeftBehind(name) ==
  IF name = "VoiceModeOff" THEN recoveryTimers
  ELSE IF name = "RecoveryTimerFired" /\ staleRecoveries > 0 THEN staleRecoveries - 1
  ELSE staleRecoveries

(* the alert of startListening after a failed probe, and the branches of       *)
(* onerror that fall through to setIsListening(false), met in voice mode        *)
FaultSeen(name, flag) ==
  IF name \in {"VoiceModeOn", "VoiceModeOff"} THEN FALSE
  ELSE IF voiceModeRef /\ (name = "ProbeDenied" \/ (name = "EngineError" /\ ~flag)) THEN TRUE
  ELSE sessionFaulted

Took(name, flag) ==
  /\ lastOp' = Op(name, flag)
  /\ staleRecoveries' = RecoveriesLeftBehind(name)
  /\ sessionFaulted' = FaultSeen(name, flag)
  /\ UNCHANGED <<userBudget, apiCall, voiceState>>
UserTook(name, flag) ==
  /\ lastOp' = Op(name, flag)
  /\ staleRecoveries' = RecoveriesLeftBehind(name)
  /\ sessionFaulted' = FaultSeen(name, flag)
  /\ userBudget > 0
  /\ userBudget' = userBudget - 1
  /\ UNCHANGED <<apiCall, voiceState>>

(* the two mount effects (and the effect that mirrors isVoiceMode into voiceModeRef) *)
Mount ==
  /\ ~mounted
  /\ mounted' = TRUE
  /\ speechRecognitionSupported' = hasRecognition
  /\ speechSynthesisSupported' = hasSynthesis
  /\ voiceModeRef' = isVoiceMode
  /\ Took("Mount", FALSE)
  /\ UNCHANGED <<hasRecognition, hasSynthesis, synthCopy, renderVars, restartVars, recVars, synVars,
                 messages, isLoading, autoSpeak, calls, recoveryTimers, speakTimers>>

(* ------------------------------ helpers -------------------------------- *)
MaxInput == MaxAcc + 2

Remove(s, i) == SubSeq(s, 1, i - 1) \o SubSeq(s, i + 1, Len(s))
Least(S) == CHOOSE x \in S : \A y \in S : x <= y

(* the effect "Manual microphone: write transcript to input when listening stops" *)
ManualTranscriptEffect(tr, ivm, il) == Truthy(tr) /\ ~ivm /\ ~il

(* The render that follows a step, with the manual transcript effect run when its *)
(* condition holds: setInput(prev + transcript); resetTranscript()                *)
Commit(ivm, il, tr, ftr, inp) ==
  /\ isVoiceMode' = ivm
  /\ isListening' = il
  /\ IF ManualTranscriptEffect(tr, ivm, il)
     THEN input' = inp \o tr /\ transcript' = Empty /\ finalTranscriptRef' = Empty
     ELSE input' = inp /\ transcript' = tr /\ finalTranscriptRef' = ftr
  /\ Len(input') <= MaxInput

(* ------------------------ useSpeechRecognition ------------------------- *)
(* SpeechRecognition.abort() and .stop() on the instance in slot e (0: none) *)
Abort(eng, e) ==
  IF e # 0 /\ eng[e] \in {"starting", "running", "stopping"}
  THEN [eng EXCEPT ![e] = "aborting"] ELSE eng
StopEngine(eng, e) ==
  IF e # 0 /\ eng[e] \in {"starting", "running"}
  THEN [eng EXCEPT ![e] = "stopping"] ELSE eng

(* an instance that was started and has neither been stopped or aborted nor ended *)
Running(e) == engines[e] \in {"starting", "running"}
RunningEngines == {e \in EngineIds : Running(e)}

FreeEngines == {e \in EngineIds : engines[e] = "none" /\ recognitionRef # e /\ silenceTimeoutRef # e}

(* which engine cleanup() aborts *)
CleanupTarget == recognitionRef

(* stopListening: clears the mode flag and the callback, then cleanup() *)
StopListening ==
  /\ isVoiceModeRef' = FALSE
  /\ onSpeechEndRef' = "null"
  /\ timeoutRef' = FALSE /\ restartOrigin' = "none"
  /\ restartCancelled' = timeoutRef
  /\ silenceTimeoutRef' = 0
  /\ engines' = Abort(engines, CleanupTarget)
  /\ recognitionRef' = 0
  /\ UNCHANGED <<probes, engChunks, graceTimers>>

(* restartListening: clears the pending restart timer and arms a new one *)
RestartListening(origin) ==
  /\ timeoutRef' = TRUE
  /\ restartOrigin' = origin
  /\ restartCancelled' = FALSE

(* startListening up to its first await: the support guard, then the probe *)
StartListening(cb, supported) == IF supported THEN Append(probes, cb) ELSE probes
StartRoom(supported) == supported => Len(probes) < MaxPending

(* isVoiceModeRef.current && onSpeechEndRef.current *)
VoiceSession == isVoiceModeRef /\ onSpeechEndRef # "null"

(* the restart timer callback: if (isVoiceModeRef.current) *)
RestartGuardIgnoringMode == TRUE
RestartGuard == isVoiceModeRef

(* the restart timer fires: if (isVoiceModeRef.current) startListening(onSpeechEnd) *)
RestartTimerFired ==
  /\ timeoutRef
  /\ timeoutRef' = FALSE /\ restartOrigin' = "none" /\ restartCancelled' = FALSE
  /\ IF RestartGuard
     THEN StartRoom(FirstRenderIsSupported) /\ probes' = StartListening("hvc", FirstRenderIsSupported)
     ELSE probes' = probes
  /\ Took("RestartTimerFired", RestartGuard)
  /\ UNCHANGED <<platformVars, renderVars, appVars, synVars, recognitionRef, onSpeechEndRef,
                 isVoiceModeRef, silenceTimeoutRef, engines, engChunks, graceTimers>>

(* startListening after the probe: if (!hasPermission) { alert(...); return; } *)
PermissionGuardIgnored(granted) == TRUE
PermissionGuard(granted) == granted

(* checkMicrophonePermission resolves and startListening resumes *)
ProbeResolved(i, granted) ==
  /\ i \in 1..Len(probes)
  /\ probes' = Remove(probes, i)
  /\ Took(IF granted THEN "EngineCreated" ELSE "ProbeDenied", granted /\ probes[i] # "null")
  /\ IF ~PermissionGuard(granted)
     THEN /\ UNCHANGED <<renderVars, restartVars, recognitionRef, onSpeechEndRef, isVoiceModeRef,
                         silenceTimeoutRef, engines, engChunks>>
     ELSE /\ FreeEngines # {}
          /\ LET e == Least(FreeEngines) IN
             /\ timeoutRef' = FALSE /\ restartOrigin' = "none" /\ restartCancelled' = FALSE
             /\ silenceTimeoutRef' = 0
             /\ engines' = [Abort(engines, CleanupTarget) EXCEPT ![e] = "starting"]
             /\ recognitionRef' = e
             /\ isVoiceModeRef' = (probes[i] # "null")
             /\ onSpeechEndRef' = probes[i]
             /\ engChunks' = [engChunks EXCEPT ![e] = Empty]
             /\ Commit(isVoiceMode, FALSE, transcript, Empty, input)
  /\ UNCHANGED <<platformVars, appVars, synVars, graceTimers>>

(* recognition.onstart *)
EngineStarted(e) ==
  /\ engines[e] = "starting"
  /\ engines' = [engines EXCEPT ![e] = "running"]
  /\ Commit(isVoiceMode, TRUE, Empty, finalTranscriptRef, input)
  /\ Took("EngineStarted", FALSE)
  /\ UNCHANGED <<platformVars, appVars, restartVars, synVars, recognitionRef, onSpeechEndRef,
                 isVoiceModeRef, silenceTimeoutRef, probes, engChunks, graceTimers>>

(* after a result event: is the silence timer armed *)
ArmsSilenceTimerIgnoringMode(fin) == Truthy(fin)
ArmsSilenceTimer(fin) == Truthy(fin) /\ VoiceSession

(* recognition.onresult with the event's final text fin and interim text int *)
EngineResult(e, fin, int) ==
  /\ engines[e] \in {"running", "stopping"}
  /\ Truthy(fin) \/ Truthy(int)
  /\ Len(finalTranscriptRef \o fin) <= MaxAcc
  /\ Len(engChunks[e] \o fin) <= MaxAcc
  /\ engChunks' = [engChunks EXCEPT ![e] = @ \o fin]
  /\ silenceTimeoutRef' = IF ArmsSilenceTimer(fin) THEN e ELSE 0
  /\ Commit(isVoiceMode, isListening, (finalTranscriptRef \o fin) \o int,
            finalTranscriptRef \o fin, input)
  /\ Took("EngineResult", ArmsSilenceTimer(fin))
  /\ UNCHANGED <<platformVars, appVars, restartVars, synVars, recognitionRef, onSpeechEndRef,
                 isVoiceModeRef, probes, engines, graceTimers>>

(* the text the silence timeout callback hands over *)
FullText == Trim(finalTranscriptRef)

(* the silence timeout callback: does it deliver *)
Delivers == Truthy(FullText) /\ VoiceSession

(* the silence timer fires *)
SilenceTimerFired ==
  /\ silenceTimeoutRef # 0
  /\ silenceTimeoutRef' = 0
  /\ IF Delivers
     THEN /\ Len(graceTimers) < MaxPending
          /\ engines' = StopEngine(engines, silenceTimeoutRef)
          /\ graceTimers' = Append(graceTimers,
               [text |-> FullText, session |-> Trim(engChunks[silenceTimeoutRef]),
                first |-> engines[silenceTimeoutRef] = "running"])
     ELSE UNCHANGED <<engines, graceTimers>>
  /\ Took("SilenceTimerFired", Delivers)
  /\ UNCHANGED <<platformVars, renderVars, appVars, restartVars, synVars, recognitionRef,
                 onSpeechEndRef, isVoiceModeRef, probes, engChunks>>

ErrorKinds == {"aborted", "not-allowed", "no-speech", "network"}

(* recognition.onerror: the no-speech branch that restarts and returns *)
NoSpeechRestart(kind) == kind = "no-speech" /\ VoiceSession

(* recognition.onerror *)
EngineError(e, kind) ==
  /\ IF kind = "aborted" THEN engines[e] = "aborting" ELSE engines[e] \in {"starting", "running"}
  /\ engines' = [engines EXCEPT ![e] = "ending"]
  /\ IF NoSpeechRestart(kind)
     THEN /\ RestartListening("no-speech")
          /\ UNCHANGED <<renderVars, recognitionRef, silenceTimeoutRef>>
     ELSE /\ recognitionRef' = 0
          /\ silenceTimeoutRef' = 0
          /\ Commit(isVoiceMode, FALSE, transcript, finalTranscriptRef, input)
          /\ UNCHANGED restartVars
  /\ Took("EngineError", NoSpeechRestart(kind))
  /\ UNCHANGED <<platformVars, appVars, synVars, onSpeechEndRef, isVoiceModeRef, probes,
                 engChunks, graceTimers>>

(* recognition.onend: the transcript it leaves *)
TranscriptAtEnd ==
  IF ~isVoiceModeRef /\ Truthy(finalTranscriptRef) THEN finalTranscriptRef ELSE transcript

(* recognition.onend *)
EngineEnded(e) ==
  /\ engines[e] \in {"running", "stopping", "aborting", "ending"}
  /\ engines' = [engines EXCEPT ![e] = "none"]
  /\ engChunks' = [engChunks EXCEPT ![e] = Empty]
  /\ recognitionRef' = 0
  /\ silenceTimeoutRef' = 0
  /\ Commit(isVoiceMode, FALSE, TranscriptAtEnd, finalTranscriptRef, input)
  /\ Took("EngineEnded", FALSE)
  /\ UNCHANGED <<platformVars, appVars, restartVars, synVars, onSpeechEndRef, isVoiceModeRef,
                 probes, graceTimers>>

(* ------------------------- useSpeechSynthesis -------------------------- *)
(* speechSynthesis.cancel(): every queued or speaking utterance is dropped; the *)
(* engine may still deliver an end or an error event for it                     *)
Cancel(utt) ==
  [u \in UttIds |-> IF utt[u] \in {"queued", "speaking"} THEN "cancelled" ELSE utt[u]]

(* a registered callback that was neither invoked nor replaced by a later speak *)
Outstanding(u) == cbs[u].reg /\ cbs[u].invoked = 0 /\ ~cbs[u].superseded

FreeUtts ==
  {u \in UttIds : utterances[u] = "none" /\ onEndCallbackRef # u
                  /\ \A t \in settleTimers : t.cb # u}

(* stop() *)
SynStop ==
  /\ utterances' = Cancel(utterances)
  /\ isSpeaking' = FALSE
  /\ onEndCallbackRef' = 0
  /\ cbs' = [u \in UttIds |-> IF Outstanding(u) THEN [cbs[u] EXCEPT !.stopped = TRUE] ELSE cbs[u]]
  /\ UNCHANGED settleTimers

(* speak: if (!isSupported || !text.trim()) return *)
SpeakGuardUntrimmed(text) == speechSynthesisSupported /\ Truthy(text)
SpeakGuard(text) == speechSynthesisSupported /\ Truthy(Trim(text))

SpeakRoom(text) == SpeakGuard(text) => FreeUtts # {}

(* speak(text, onEnd); withCb: an onEnd callback is passed *)
SynSpeak(text, withCb) ==
  IF ~SpeakGuard(text) THEN UNCHANGED synVars
  ELSE LET u == Least(FreeUtts) IN
       /\ onEndCallbackRef' = IF withCb THEN u ELSE 0
       /\ utterances' = [Cancel(utterances) EXCEPT ![u] = "queued"]
       /\ cbs' = [v \in UttIds |->
                    IF v = u THEN [NoCb EXCEPT !.reg = withCb]
                    ELSE IF Outstanding(v)
                         THEN [cbs[v] EXCEPT !.superseded = TRUE,
                                             !.cut = IF withCb /\ utterances[v] = "speaking"
                                                     THEN u ELSE 0]
                    ELSE IF cbs[v].cut = u THEN [cbs[v] EXCEPT !.cut = 0]
                    ELSE cbs[v]]
       /\ UNCHANGED <<isSpeaking, settleTimers>>

(* the completion callback handleVoiceConversation passes to speak:             *)
(* if (voiceModeRef.current) restartListening(handleVoiceConversation)          *)
CallbackRestarts == voiceModeRef

(* callback c is invoked; properly: by the settle timer of its own utterance    *)
InvokeCb(c, properly) ==
  /\ cbs' = [cbs EXCEPT ![c].invoked = IF @ < 2 THEN @ + 1 ELSE @,
                        ![c].proper = @ /\ properly]
  /\ IF CallbackRestarts THEN RestartListening("speech") ELSE UNCHANGED restartVars

(* utterance.onend and utterance.onerror of utterance u *)
OnUtteranceOver(u) ==
  /\ isSpeaking' = FALSE
  /\ IF onEndCallbackRef = 0
     THEN UNCHANGED <<onEndCallbackRef, settleTimers, cbs, restartVars>>
     ELSE /\ onEndCallbackRef' = 0
          /\ IF synthCopy = 2
             THEN /\ settleTimers' = settleTimers \cup {[cb |-> onEndCallbackRef, own |-> onEndCallbackRef = u]}
                  /\ UNCHANGED <<cbs, restartVars>>
             ELSE /\ InvokeCb(onEndCallbackRef, FALSE)
                  /\ UNCHANGED settleTimers

(* utterance.onstart *)
UtteranceStarted(u) ==
  /\ utterances[u] = "queued"
  /\ utterances' = [utterances EXCEPT ![u] = "speaking"]
  /\ isSpeaking' = TRUE
  /\ Took("UtteranceStarted", FALSE)
  /\ UNCHANGED <<platformVars, renderVars, appVars, restartVars, recVars,
                 onEndCallbackRef, settleTimers, cbs>>

(* the end event of utterance u is delivered *)
UtteranceEnded(u) ==
  /\ utterances[u] \in {"speaking", "cancelled", "errored"}
  /\ utterances' = [utterances EXCEPT ![u] = "none"]
  /\ OnUtteranceOver(u)
  /\ Took("UtteranceEnded", onEndCallbackRef # 0)
  /\ UNCHANGED <<platformVars, renderVars, appVars, recVars>>

(* the error event of utterance u is delivered *)
UtteranceErrored(u) ==
  /\ utterances[u] \in {"queued", "speaking", "cancelled"}
  /\ utterances' = [utterances EXCEPT ![u] = "errored"]
  /\ OnUtteranceOver(u)
  /\ Took("UtteranceErrored", onEndCallbackRef # 0)
  /\ UNCHANGED <<platformVars, renderVars, appVars, recVars>>

(* the engine delivers no (further) event for a cancelled or errored utterance *)
UtteranceDropped(u) ==
  /\ utterances[u] \in {"cancelled", "errored"}
  /\ utterances' = [utterances EXCEPT ![u] = "none"]
  /\ Took("UtteranceDropped", FALSE)
  /\ UNCHANGED <<platformVars, renderVars, appVars, restartVars, recVars,
                 isSpeaking, onEndCallbackRef, settleTimers, cbs>>

(* the settle-delay timer of the second definition fires: callback() *)
SettleTimerFired(t) ==
  /\ t \in settleTimers
  /\ settleTimers' = settleTimers \ {t}
  /\ InvokeCb(t.cb, t.own)
  /\ Took("SettleTimerFired", cbs[t.cb].stopped)
  /\ UNCHANGED <<platformVars, renderVars, appVars, recVars,
                 isSpeaking, onEndCallbackRef, utterances>>

(* --------------------------------- App --------------------------------- *)
UserMessage(text) == [type |-> "user", message |-> text]
BotMessage(text) == [type |-> "bot", message |-> text]
VoiceCall == [kind |-> "voice", autoSpeak |-> FALSE, exited |-> FALSE]
SendCall(speakWanted) == [kind |-> "send", autoSpeak |-> speakWanted, exited |-> FALSE]

(* room for one more turn (a user message and a bot message) and one more call *)
TurnRoom == Len(messages) + 2 * Len(calls) + 2 <= MaxMessages /\ Len(calls) < MaxPending

(* handleVoiceConversation: if (!spokenText.trim()) *)
TrivialUtteranceUntrimmed(spokenText) == ~Truthy(spokenText)
TrivialUtterance(spokenText) == ~Truthy(Trim(spokenText))

(* handleVoiceConversation up to its await; the caller sets graceTimers and lastOp *)
HandleVoiceConversation(spokenText) ==
  IF TrivialUtterance(spokenText)
  THEN /\ IF voiceModeRef THEN RestartListening("empty") ELSE UNCHANGED restartVars
       /\ UNCHANGED <<renderVars, messages, isLoading, calls, synVars>>
  ELSE /\ TurnRoom
       /\ Commit(isVoiceMode, isListening, Empty, Empty, input)
       /\ messages' = Append(messages, UserMessage(spokenText))
       /\ isLoading' = TRUE
       /\ SynStop
       /\ calls' = Append(calls, VoiceCall)
       /\ UNCHANGED restartVars

(* the grace timer of the silence timeout callback fires: callback(fullText) *)
GraceTimerFired(i) ==
  /\ i \in 1..Len(graceTimers)
  /\ graceTimers' = Remove(graceTimers, i)
  /\ HandleVoiceConversation(graceTimers[i].text)
  /\ Took("HandleVoiceConversation", Trim(graceTimers[i].text) = Empty)
  /\ UNCHANGED <<platformVars, autoSpeak, voiceModeRef, recoveryTimers, speakTimers,
                 recognitionRef, onSpeechEndRef, isVoiceModeRef, silenceTimeoutRef,
                 probes, engines, engChunks>>

(* after the await of handleVoiceConversation: the three uses of voiceModeRef.current *)
ShouldSpeakIgnoringMode(o) == Truthy(o.textResponse)
ShouldSpeak(o) == Truthy(o.textResponse) /\ voiceModeRef
RestartsDirectlyIgnoringMode == TRUE
ShouldRestartDirectly == voiceModeRef
ShouldRecover == voiceModeRef

(* the backend call of handleVoiceConversation resolves with outcome o *)
VoiceCallResolved(i, o) ==
  /\ i \in 1..Len(calls) /\ calls[i].kind = "voice"
  /\ calls' = Remove(calls, i)
  /\ isLoading' = FALSE
  /\ IF o.ok
     THEN /\ messages' = Append(messages, BotMessage(o.textResponse))
          /\ UNCHANGED recoveryTimers
          /\ IF ShouldSpeak(o)
             THEN SpeakRoom(o.textResponse) /\ SynSpeak(o.textResponse, TRUE) /\ UNCHANGED restartVars
             ELSE /\ UNCHANGED synVars
                  /\ IF ShouldRestartDirectly THEN RestartListening("direct")
                     ELSE UNCHANGED restartVars
     ELSE /\ messages' = Append(messages, BotMessage(ErrorMessageOf(o)))
          /\ IF ShouldRecover
             THEN recoveryTimers < MaxPending /\ recoveryTimers' = recoveryTimers + 1
             ELSE UNCHANGED recoveryTimers
          /\ UNCHANGED <<synVars, restartVars>>
  /\ Took(IF o.ok THEN "VoiceCallSucceeded" ELSE "VoiceCallFailed", calls[i].exited)
  /\ UNCHANGED <<platformVars, renderVars, autoSpeak, voiceModeRef, speakTimers, recVars>>

(* the 2 s timer of the catch block fires *)
RecoveryTimerFired ==
  /\ recoveryTimers > 0
  /\ recoveryTimers' = recoveryTimers - 1
  /\ IF voiceModeRef THEN RestartListening("recovery") ELSE UNCHANGED restartVars
  /\ Took("RecoveryTimerFired", voiceModeRef)
  /\ UNCHANGED <<platformVars, renderVars, messages, isLoading, autoSpeak, voiceModeRef, calls,
                 speakTimers, recVars, synVars>>

(* handleVoiceToggle; the button is disabled while loading when voice mode is off *)
HandleVoiceToggle ==
  /\ mounted
  /\ IF isVoiceMode
     THEN /\ voiceModeRef' = FALSE
          /\ StopListening
          /\ SynStop
          /\ Commit(FALSE, FALSE, transcript, finalTranscriptRef, input)
          /\ calls' = [i \in 1..Len(calls) |->
                         IF calls[i].kind = "voice" THEN [calls[i] EXCEPT !.exited = TRUE] ELSE calls[i]]
          /\ UserTook("VoiceModeOff", RunningEngines # {})
     ELSE /\ speechRecognitionSupported /\ speechSynthesisSupported /\ ~isLoading
          /\ StartRoom(speechRecognitionSupported)
          /\ voiceModeRef' = TRUE
          /\ Commit(TRUE, isListening, Empty, Empty, input)
          /\ probes' = StartListening("hvc", speechRecognitionSupported)
          /\ calls' = [i \in 1..Len(calls) |-> [calls[i] EXCEPT !.exited = FALSE]]
          /\ UserTook("VoiceModeOn", FALSE)
          /\ UNCHANGED <<restartVars, recognitionRef, onSpeechEndRef, isVoiceModeRef,
                         silenceTimeoutRef, engines, engChunks, graceTimers, synVars>>
  /\ UNCHANGED <<platformVars, messages, isLoading, autoSpeak, recoveryTimers, speakTimers>>

(* handleManualVoiceInput; the button exists outside voice mode and is disabled while loading *)
HandleManualVoiceInput ==
  /\ mounted /\ ~isVoiceMode /\ speechRecognitionSupported /\ ~isLoading
  /\ IF isListening
     THEN /\ StopListening
          /\ Commit(isVoiceMode, FALSE, transcript, finalTranscriptRef, input)
          /\ UserTook("ManualStop", RunningEngines # {})
     ELSE /\ StartRoom(speechRecognitionSupported)
          /\ Commit(isVoiceMode, isListening, Empty, Empty, input)
          /\ probes' = StartListening("null", speechRecognitionSupported)
          /\ UserTook("ManualStart", FALSE)
          /\ UNCHANGED <<restartVars, recognitionRef, onSpeechEndRef, isVoiceModeRef,
                         silenceTimeoutRef, engines, engChunks, graceTimers>>
  /\ UNCHANGED <<platformVars, appVars, synVars>>

(* the compose box: onChange *)
SetInput(text) ==
  /\ mounted /\ ~isVoiceMode /\ ~isLoading
  /\ text # input
  /\ input' = text
  /\ UserTook("SetInput", FALSE)
  /\ UNCHANGED <<platformVars, isVoiceMode, isListening, transcript, finalTranscriptRef,
                 appVars, restartVars, recVars, synVars>>

(* the auto-speak switch *)
SetAutoSpeak ==
  /\ mounted /\ ~isVoiceMode /\ speechSynthesisSupported
  /\ autoSpeak' = ~autoSpeak
  /\ UserTook("SetAutoSpeak", FALSE)
  /\ UNCHANGED <<platformVars, renderVars, messages, isLoading, voiceModeRef, calls,
                 recoveryTimers, speakTimers, restartVars, recVars, synVars>>

(* handleSendMessage up to its await (attachments are not modelled) *)
HandleSendMessage ==
  /\ mounted /\ ~isVoiceMode /\ ~isLoading
  /\ Truthy(Trim(input))
  /\ TurnRoom
  /\ messages' = Append(messages, UserMessage(input))
  /\ isLoading' = TRUE
  /\ SynStop
  /\ Commit(isVoiceMode, isListening, Empty, Empty, Empty)
  /\ calls' = Append(calls, SendCall(autoSpeak))
  /\ UserTook("HandleSendMessage", FALSE)
  /\ UNCHANGED <<platformVars, autoSpeak, voiceModeRef, recoveryTimers, speakTimers,
                 restartVars, recVars>>

(* the backend call of handleSendMessage resolves with outcome o *)
SendCallResolved(i, o) ==
  /\ i \in 1..Len(calls) /\ calls[i].kind = "send"
  /\ calls' = Remove(calls, i)
  /\ isLoading' = FALSE
  /\ IF o.ok
     THEN /\ messages' = Append(messages, BotMessage(o.textResponse))
          /\ IF calls[i].autoSpeak /\ Truthy(o.textResponse)
             THEN Len(speakTimers) < MaxPending /\ speakTimers' = Append(speakTimers, o.textResponse)
             ELSE UNCHANGED speakTimers
     ELSE /\ messages' = Append(messages, BotMessage(ErrorMessageOf(o)))
          /\ UNCHANGED speakTimers
  /\ Took("SendCallResolved", o.ok)
  /\ UNCHANGED <<platformVars, renderVars, autoSpeak, voiceModeRef, recoveryTimers,
                 restartVars, recVars, synVars>>

(* the 500 ms auto-speak timer fires: speak(data.textResponse) *)
SpeakTimerFired(i) ==
  /\ i \in 1..Len(speakTimers)
  /\ speakTimers' = Remove(speakTimers, i)
  /\ SpeakRoom(speakTimers[i])
  /\ SynSpeak(speakTimers[i], FALSE)
  /\ Took("AutoSpeak", SpeakGuard(speakTimers[i]))
  /\ UNCHANGED <<platformVars, renderVars, messages, isLoading, autoSpeak, voiceModeRef, calls,
                 recoveryTimers, restartVars, recVars>>

(* handleSpeakMessage on bot message i *)
HandleSpeakMessage(i) ==
  /\ mounted /\ ~isVoiceMode /\ speechSynthesisSupported
  /\ i \in 1..Len(messages) /\ messages[i].type = "bot"
  /\ IF isSpeaking
     THEN SynStop /\ UserTook("SpeakMessageStop", FALSE)
     ELSE /\ SpeakRoom(messages[i].message)
          /\ SynSpeak(messages[i].message, FALSE)
          /\ UserTook("SpeakMessage", SpeakGuard(messages[i].message))
  /\ UNCHANGED <<platformVars, renderVars, appVars, restartVars, recVars>>

(* handleResetChat (the reset call to the backend changes nothing here) *)
HandleResetChat ==
  /\ mounted /\ ~isVoiceMode /\ ~isLoading
  /\ messages' = <<>>
  /\ voiceModeRef' = FALSE
  /\ SynStop
  /\ StopListening
  /\ Commit(FALSE, FALSE, Empty, Empty, input)
  /\ UserTook("ResetChat", RunningEngines # {})
  /\ UNCHANGED <<platformVars, isLoading, autoSpeak, calls, recoveryTimers, speakTimers>>

(* ------------------------------ direct calls --------------------------- *)
(* a caller of the playback hook calls speak(text, onEnd) *)
SpeakCalled(text, withCb) ==
  /\ SpeakRoom(text)
  /\ SynSpeak(text, withCb)
  /\ Took("Speak", hasSynthesis /\ Trim(text) # Empty)
  /\ UNCHANGED <<platformVars, renderVars, appVars, restartVars, recVars>>

(* a caller of the playback hook calls stop() *)
StopCalled ==
  /\ SynStop
  /\ Took("Stop", onEndCallbackRef # 0)
  /\ UNCHANGED <<platformVars, renderVars, appVars, restartVars, recVars>>

(* handleVoiceConversation is called with spokenText *)
HandleVoiceConversationCalled(spokenText) ==
  /\ HandleVoiceConversation(spokenText)
  /\ Took("HandleVoiceConversation", Trim(spokenText) = Empty)
  /\ UNCHANGED <<platformVars, autoSpeak, voiceModeRef, recoveryTimers, speakTimers, recVars>>

(* resetTranscript: setTranscript(''); finalTranscriptRef.current = '' *)
ResetTranscriptKeepingAccumulator ==
  Commit(isVoiceMode, isListening, Empty, finalTranscriptRef, input)
ResetTranscript == Commit(isVoiceMode, isListening, Empty, Empty, input)

(* a caller of the capture hook calls resetTranscript() *)
ResetTranscriptCalled ==
  /\ mounted
  /\ ResetTranscript
  /\ Took("ResetTranscript", Truthy(transcript) /\ Truthy(finalTranscriptRef))
  /\ UNCHANGED <<platformVars, appVars, restartVars, recVars, synVars>>

(* getCurrentVoiceState: priority order loading > speaking > listening > idle *)
getCurrentVoiceStateSpeakingFirst(loading, speaking, listening) ==
  IF speaking THEN "speaking"
  ELSE IF loading THEN "loading"
  ELSE IF listening THEN "listening"
  ELSE "idle"
getCurrentVoiceState(loading, speaking, listening) ==
  IF loading THEN "loading"
  ELSE IF speaking THEN "speaking"
  ELSE IF listening THEN "listening"
  ELSE "idle"

(* getCurrentVoiceState is called in a render whose flags are l, s and li *)
GetCurrentVoiceStateCalled(l, s, li) ==
  /\ voiceState' = [isLoading |-> l, isSpeaking |-> s, isListening |-> li,
                    state |-> getCurrentVoiceState(l, s, li)]
  /\ voiceState' # voiceState
  /\ lastOp' = Op("getCurrentVoiceState", FALSE)
  /\ UNCHANGED <<platformVars, renderVars, appVars, restartVars, recVars, synVars, userBudget,
                 apiCall, staleRecoveries, sessionFaulted>>

(* sendChatMessage is called; the network and the backend will answer r *)
SendChatMessageCalled(r) ==
  /\ apiCall.phase # "pending"
  /\ apiCall' = [phase |-> "pending", response |-> r, outcome |-> NoApiCall.outcome]
  /\ lastOp' = Op("sendChatMessageCalled", FALSE)
  /\ UNCHANGED <<platformVars, renderVars, appVars, restartVars, recVars, synVars, userBudget,
                 voiceState, staleRecoveries, sessionFaulted>>

(* the call settles: sendChatMessage returns or throws *)
SendChatMessageSettled ==
  /\ apiCall.phase = "pending"
  /\ apiCall' = [apiCall EXCEPT !.phase = "settled", !.outcome = sendChatMessage(apiCall.response)]
  /\ lastOp' = Op("sendChatMessageSettled", sendChatMessage(apiCall.response).ok)
  /\ UNCHANGED <<platformVars, renderVars, appVars, restartVars, recVars, synVars, userBudget,
                 voiceState, staleRecoveries, sessionFaulted>>

(* ----------------------------- specification --------------------------- *)
(* promises, events and timers of the capture controller; F and N: the final *)
(* and interim texts a result event can carry                                 *)
CaptureEvents(F, N) ==
  \/ \E i \in 1..MaxPending, g \in BOOLEAN : ProbeResolved(i, g)
  \/ \E e \in EngineIds : EngineStarted(e)
  \/ \E e \in EngineIds, f \in F, n \in N : EngineResult(e, f, n)
  \/ \E e \in EngineIds, k \in ErrorKinds : EngineError(e, k)
  \/ \E e \in EngineIds : EngineEnded(e)
  \/ RestartTimerFired
  \/ SilenceTimerFired
  \/ \E i \in 1..MaxPending : GraceTimerFired(i)

(* events of the playback engine *)
UtteranceEvents ==
  \/ \E u \in UttIds : UtteranceStarted(u)
  \/ \E u \in UttIds : UtteranceEnded(u)
  \/ \E u \in UttIds : UtteranceErrored(u)
  \/ \E u \in UttIds : UtteranceDropped(u)

(* The voice loop: the user toggles voice mode and presses the manual          *)
(* microphone button; the backend answers.                                     *)
Next ==
  \/ Mount
  \/ HandleVoiceToggle
  \/ HandleManualVoiceInput
  \/ CaptureEvents(FinalChunks, InterimChunks)
  \/ \E i \in 1..MaxPending, o \in Outcomes : VoiceCallResolved(i, o)
  \/ RecoveryTimerFired
  \/ UtteranceEvents
  \/ \E t \in settleTimers : SettleTimerFired(t)

Spec == Init /\ [][Next]_vars

(* The capture controller under one more user action, with the backend not     *)
(* answering and result events that carry one final text.                      *)
InitCapture == Begin /\ userBudget = MaxPresses

NextCapture ==
  \/ Mount
  \/ HandleVoiceToggle
  \/ HandleManualVoiceInput
  \/ CaptureEvents(CaptureChunks, {Empty})

SpecCapture == InitCapture /\ [][NextCapture]_vars

(* Typed chat: composing, sending, reading aloud, resetting.                   *)
NextChat ==
  \/ Mount
  \/ \E t \in Typed : SetInput(t)
  \/ SetAutoSpeak
  \/ HandleSendMessage
  \/ HandleResetChat
  \/ \E i \in 1..MaxMessages : HandleSpeakMessage(i)
  \/ \E i \in 1..MaxPending, o \in Outcomes : SendCallResolved(i, o)
  \/ \E i \in 1..MaxPending : SpeakTimerFired(i)
  \/ UtteranceEvents

SpecChat == InitCapture /\ [][NextChat]_vars

(* The playback controller under every order of calls of its speak and stop.   *)
NextSynth ==
  \/ Mount
  \/ \E t \in Replies, c \in BOOLEAN : SpeakCalled(t, c)
  \/ StopCalled
  \/ UtteranceEvents
  \/ \E t \in settleTimers : SettleTimerFired(t)

SpecSynth == Init /\ [][NextSynth]_vars

(* The voice loop with handleVoiceConversation also called directly, with the   *)
(* texts the silence timeout callback does not hand over.                      *)
NextEntry ==
  \/ Next
  \/ \E t \in TrivialTexts : HandleVoiceConversationCalled(t)

SpecEntry == Init /\ [][NextEntry]_vars

(* The voice loop across sessions: the user only toggles voice mode, often      *)
(* enough to leave it and enter it again; result events carry one final text.  *)
NextSessions ==
  \/ Mount
  \/ HandleVoiceToggle
  \/ CaptureEvents(CaptureChunks, {Empty})
  \/ \E i \in 1..MaxPending, o \in Outcomes : VoiceCallResolved(i, o)
  \/ RecoveryTimerFired
  \/ UtteranceEvents
  \/ \E t \in settleTimers : SettleTimerFired(t)

SpecSessions == InitCapture /\ [][NextSessions]_vars

(* The capture controller with resetTranscript also called directly.           *)
NextReset ==
  \/ NextCapture
  \/ ResetTranscriptCalled

SpecReset == InitCapture /\ [][NextReset]_vars

(* getCurrentVoiceState alone, under every combination of the three flags.      *)
NextDisplay ==
  \/ Mount
  \/ \E l \in BOOLEAN, s \in BOOLEAN, li \in BOOLEAN : GetCurrentVoiceStateCalled(l, s, li)

SpecDisplay == Init /\ [][NextDisplay]_vars

(* sendChatMessage alone, against every answer of the network and the backend. *)
NextApi ==
  \/ \E r \in Responses : SendChatMessageCalled(r)
  \/ SendChatMessageSettled

SpecApi == Init /\ [][NextApi]_vars

(* ------------------------------ properties ----------------------------- *)
VoiceCallOver(op) == op.op \in {"VoiceCallSucceeded", "VoiceCallFailed"}

(* C1: when the user has left voice mode while the backend call of             *)
(* handleVoiceConversation was in flight and has not entered it again, the     *)
(* step in which that call resolves starts no playback and neither schedules   *)
(* nor starts a capture restart: the utterances, the playback callback, the    *)
(* restart timer, the recovery timers, the suspended startListening calls and  *)
(* the engines are as before.                                                  *)
C1_NoLoopStepAfterExit ==
  [][(VoiceCallOver(lastOp') /\ lastOp'.flag) =>
       /\ UNCHANGED <<utterances, onEndCallbackRef, isSpeaking, settleTimers>>
       /\ UNCHANGED <<timeoutRef, restartOrigin, recoveryTimers, probes, engines>>]_vars

(* C1 happens: a call resolved with a non-empty reply after the user had left  *)
(* voice mode, and the reply was appended.                                     *)
C1_Witness ==
  /\ lastOp = Op("VoiceCallSucceeded", TRUE)
  /\ ~voiceModeRef
  /\ messages # <<>> /\ messages[Len(messages)] = BotMessage(<<"s">>)

RestartTimerFiredInVoiceMode(origin) ==
  /\ lastOp'.op = "RestartTimerFired"
  /\ restartOrigin = origin
  /\ isVoiceModeRef /\ voiceModeRef

(* C2: in voice mode, when the restart timer that the completion callback of   *)
(* playback armed fires, the startListening call it makes gets past the        *)
(* support guard: one more call is suspended at the permission probe (from     *)
(* where an engine is created and started).                                    *)
C2_RestartAfterPlaybackPassesGuard ==
  [][RestartTimerFiredInVoiceMode("speech") => Len(probes') = Len(probes) + 1]_vars

(* C3: in every reachable state at most one capture engine is running.         *)
C3_AtMostOneEngineRunning == Cardinality(RunningEngines) <= 1

(* C4: the text the silence timeout callback hands over, at the first          *)
(* hand-over of a capture session, is the concatenation of the final chunks    *)
(* of that session's engine in arrival order, trimmed.                         *)
C4_UtteranceIsSessionChunks ==
  \A i \in 1..Len(graceTimers) :
    graceTimers[i].first => graceTimers[i].text = graceTimers[i].session

(* C5: handleVoiceConversation called with a text that is empty after          *)
(* trimming appends no message, makes no backend call, and schedules a capture *)
(* restart if and only if voice mode is active; and the silence timer never    *)
(* hands over a text that is empty after trimming.                             *)
C5_TrivialUtteranceNotForwarded ==
  /\ [][(lastOp'.op = "HandleVoiceConversation" /\ lastOp'.flag) =>
          /\ UNCHANGED <<messages, calls, isLoading>>
          /\ IF voiceModeRef
             THEN timeoutRef' /\ restartOrigin' = "empty"
             ELSE UNCHANGED <<timeoutRef, restartOrigin>>]_vars
  /\ [](\A i \in 1..Len(graceTimers) : Trim(graceTimers[i].text) # Empty)

(* C5 happens: handleVoiceConversation ran on a trivial text in voice mode and *)
(* the restart timer is armed by it.                                           *)
C5_Witness ==
  /\ lastOp = Op("HandleVoiceConversation", TRUE)
  /\ voiceModeRef
  /\ timeoutRef /\ restartOrigin = "empty"
  /\ messages = <<>> /\ calls = <<>>

(* C6: in voice mode, when the restart timer that the recovery timer of a      *)
(* failed turn armed fires, the startListening call it makes gets past the     *)
(* support guard, so that capture runs again.                                  *)
C6_RestartAfterFailurePassesGuard ==
  [][RestartTimerFiredInVoiceMode("recovery") => Len(probes') = Len(probes) + 1]_vars

(* C7: stopListening leaves the voice-mode flag false, the utterance callback  *)
(* cleared, the restart timer and the silence timer cancelled, and no capture  *)
(* engine running.                                                             *)
C7_StopListeningStopsEverything ==
  [][lastOp'.op \in {"VoiceModeOff", "ManualStop"} =>
       /\ ~isVoiceModeRef' /\ onSpeechEndRef' = "null"
       /\ ~timeoutRef' /\ silenceTimeoutRef' = 0
       /\ \A e \in EngineIds : engines'[e] \notin {"starting", "running"}]_vars

(* C8: a completion callback that was outstanding when stop() was called is    *)
(* never invoked.                                                              *)
C8_StoppedCallbackNeverInvoked ==
  \A u \in UttIds : cbs[u].stopped => cbs[u].invoked = 0

(* C9: the completion callback of a speak that was neither stopped nor         *)
(* superseded is invoked at most once, and only by the settle-delay timer that *)
(* the end or the error of its own utterance armed.                            *)
C9_CallbackOnceAfterSettleDelay ==
  \A u \in UttIds :
    (cbs[u].reg /\ ~cbs[u].stopped /\ ~cbs[u].superseded) =>
      (cbs[u].invoked <= 1 /\ cbs[u].proper)

(* C10: speak with a text that is empty after trimming, or on a platform       *)
(* without speech synthesis, changes nothing of the playback controller: no    *)
(* utterance is submitted, none is cancelled, the registered callback stays,   *)
(* no timer is armed and no callback is invoked.                               *)
C10_TrivialSpeakChangesNothing ==
  [][(lastOp'.op = "Speak" /\ ~lastOp'.flag) => UNCHANGED synVars]_vars

(* C10 happens: speak was called with a blank text while an utterance was      *)
(* being spoken and a callback was registered; both are still there.           *)
C10_Witness ==
  /\ lastOp = Op("Speak", FALSE)
  /\ hasSynthesis /\ speechSynthesisSupported
  /\ onEndCallbackRef # 0
  /\ utterances[onEndCallbackRef] = "speaking"

(* C11: in a voice-mode session with a pending silence timer and a non-blank   *)
(* accumulated final transcript, a result event that carries no final chunk    *)
(* (interim results only) leaves the silence timer pending: only a further     *)
(* final chunk resets it, so that the utterance is delivered.                  *)
C11_InterimResultKeepsSilenceTimer ==
  [][(/\ lastOp'.op = "EngineResult"
      /\ engChunks' = engChunks
      /\ VoiceSession /\ silenceTimeoutRef # 0 /\ Truthy(FullText))
       => silenceTimeoutRef' = silenceTimeoutRef]_vars

(* C12: stopListening clears a pending restart timer and leaves the voice-mode *)
(* flag of the capture controller false, so that this timer does not fire; and *)
(* a restart timer that fires while that flag is false makes no call of        *)
(* startListening: no call is suspended at the permission probe, no engine is  *)
(* created, and the flag stays false.                                          *)
C12_StoppedRestartIsSkipped ==
  /\ [][lastOp'.op \in {"VoiceModeOff", "ManualStop"} =>
          (~timeoutRef' /\ ~isVoiceModeRef')]_vars
  /\ [](restartCancelled => ~timeoutRef)
  /\ [][(lastOp'.op = "RestartTimerFired" /\ ~isVoiceModeRef) =>
          (~lastOp'.flag /\ UNCHANGED <<probes, engines, recognitionRef, isVoiceModeRef>>)]_vars

(* C12 happens: the user left voice mode while the restart timer was pending;  *)
(* the timer is gone and the flag is false.                                    *)
C12_Witness ==
  /\ lastOp.op = "VoiceModeOff"
  /\ restartCancelled
  /\ ~timeoutRef /\ ~isVoiceModeRef /\ ~voiceModeRef

(* C13: when voice mode has been exited (stopListening has cleared the flag of *)
(* the capture controller) before the grace timer of a detected endpoint       *)
(* fires, the hand-off does not act: no user message is appended, no backend   *)
(* call is made and the loading flag is not set.                               *)
C13_HandOffAfterExitDoesNotAct ==
  [][(lastOp'.op = "HandleVoiceConversation" /\ ~voiceModeRef /\ ~isVoiceModeRef) =>
       UNCHANGED <<messages, calls, isLoading>>]_vars

(* the three activities of the voice loop *)
Capturing == RunningEngines # {}
VoiceCallInFlight == \E i \in 1..Len(calls) : calls[i].kind = "voice"
PlaybackActive == \E u \in UttIds : utterances[u] \in {"queued", "speaking"}

(* C14: in every reachable state at most one of these holds: a capture engine  *)
(* is running, a backend call of handleVoiceConversation is in flight,         *)
(* playback of a reply is active.                                              *)
C14_OneActivityAtATime ==
  /\ ~(Capturing /\ VoiceCallInFlight)
  /\ ~(Capturing /\ PlaybackActive)
  /\ ~(VoiceCallInFlight /\ PlaybackActive)

(* C15: a response with HTTP status 403 makes sendChatMessage throw a          *)
(* ChatApiError whose message is the fixed invalid-credential text, whatever   *)
(* the response body is (also one that cannot be parsed as JSON).              *)
C15_Status403GivesInvalidKeyText ==
  (apiCall.phase = "settled" /\ apiCall.response.fetch = "response"
     /\ apiCall.response.status = 403)
    => apiCall.outcome = Thrown("ChatApiError", InvalidKeyText)

(* C16: at the step in which startListening creates an engine, no restart      *)
(* timer and no silence timer is pending any more, the final-transcript        *)
(* accumulator is empty, and every engine of an earlier session that has not   *)
(* ended has been aborted.                                                     *)
C16_PreviousSessionTornDown ==
  [][lastOp'.op = "EngineCreated" =>
       /\ ~timeoutRef' /\ silenceTimeoutRef' = 0
       /\ finalTranscriptRef' = Empty
       /\ \A e \in EngineIds :
            e # recognitionRef' => engines'[e] \notin {"starting", "running", "stopping"}]_vars

(* C17: when the permission probe fails, startListening creates no engine and  *)
(* leaves the mode flag, the registered callback, the transcript buffers, the  *)
(* listening flag, the pending timers and every engine as they were.           *)
C17_DeniedProbeChangesNothing ==
  [][lastOp'.op = "ProbeDenied" =>
       /\ UNCHANGED <<engines, recognitionRef, engChunks>>
       /\ UNCHANGED <<isVoiceModeRef, onSpeechEndRef, isListening>>
       /\ UNCHANGED <<transcript, finalTranscriptRef>>
       /\ UNCHANGED <<timeoutRef, silenceTimeoutRef, graceTimers>>]_vars

(* C17 happens: a probe failed while an engine of a voice session was running  *)
(* with its silence timer pending; all of it is still there.                   *)
C17_Witness ==
  /\ lastOp.op = "ProbeDenied"
  /\ recognitionRef # 0 /\ Running(recognitionRef)
  /\ isVoiceModeRef /\ onSpeechEndRef = "hvc"
  /\ silenceTimeoutRef # 0 /\ finalTranscriptRef # Empty

(* C18: in voice mode, when the restart timer that a no-speech error of the    *)
(* engine armed fires, the startListening call it makes gets past the support  *)
(* guard, so that a capture engine runs again.                                 *)
C18_RestartAfterNoSpeechPassesGuard ==
  [][RestartTimerFiredInVoiceMode("no-speech") => Len(probes') = Len(probes) + 1]_vars

(* a step in which a started engine reports an error that onerror handles as   *)
(* it handles not-allowed (every error but aborted and the no-speech of a      *)
(* voice session): it clears the listening flag, the tracked engine and the    *)
(* silence timer                                                               *)
FatalErrorStep ==
  /\ lastOp'.op = "EngineError" /\ ~lastOp'.flag
  /\ \E e \in EngineIds : engines[e] \in {"starting", "running"} /\ engines'[e] = "ending"

(* C19: once the engine has reported the fatal permission error, the session   *)
(* is over: the listening flag is false, no engine is tracked, and nothing is  *)
(* left that would fire a restart or invoke the utterance callback without an  *)
(* action of the user: no restart timer, no silence timer and no grace timer   *)
(* is pending.                                                                 *)
C19_FatalErrorEndsSession ==
  [][FatalErrorStep =>
       /\ ~isListening' /\ recognitionRef' = 0
       /\ ~timeoutRef' /\ silenceTimeoutRef' = 0
       /\ graceTimers' = <<>>]_vars

(* the step in which the backend call of a voice turn succeeds with an empty   *)
(* reply text                                                                  *)
EmptyReplyStep ==
  /\ lastOp'.op = "VoiceCallSucceeded"
  /\ messages'[Len(messages')] = BotMessage(Empty)

(* C20: when the backend call of a voice turn succeeds with an empty reply     *)
(* text, playback is not started; if voice mode is still active,               *)
(* restartListening is called directly (the restart timer is armed by that     *)
(* call); if voice mode was exited during the call, no restart is scheduled    *)
(* and no capture is started.                                                  *)
C20_EmptyReplyRestartsDirectly ==
  [][EmptyReplyStep =>
       /\ UNCHANGED <<utterances, onEndCallbackRef, isSpeaking, settleTimers, cbs>>
       /\ IF voiceModeRef
          THEN timeoutRef' /\ restartOrigin' = "direct"
          ELSE UNCHANGED <<timeoutRef, restartOrigin, probes, engines, recoveryTimers>>]_vars

(* C20 happens: in voice mode a turn was answered with an empty reply; the     *)
(* reply was appended, nothing is played and the restart timer is armed.       *)
C20_Witness ==
  /\ lastOp = Op("VoiceCallSucceeded", FALSE)
  /\ voiceModeRef
  /\ messages # <<>> /\ messages[Len(messages)] = BotMessage(Empty)
  /\ ~PlaybackActive /\ onEndCallbackRef = 0
  /\ timeoutRef /\ restartOrigin = "direct"

(* a step of an engine event or of the silence timer *)
EngineEventStep ==
  lastOp'.op \in {"EngineStarted", "EngineResult", "EngineError", "EngineEnded",
                  "SilenceTimerFired"}

(* C21: while the capture controller is in manual mode (its voice-mode flag is *)
(* false) no silence timer is pending, and no event of an engine schedules a   *)
(* hand-over to the utterance callback, schedules a restart, appends a message *)
(* or makes a backend call; when an engine ends with a non-empty accumulated   *)
(* final transcript, the observable transcript is that text (which the App     *)
(* moves into the compose input at once when voice mode is off).               *)
C21_ManualSessionChainsNothing ==
  /\ [](~isVoiceModeRef => silenceTimeoutRef = 0)
  /\ [][(EngineEventStep /\ ~isVoiceModeRef) =>
          UNCHANGED <<graceTimers, timeoutRef, restartOrigin, calls, messages, isLoading>>]_vars
  /\ [][(lastOp'.op = "EngineEnded" /\ ~isVoiceModeRef /\ Truthy(finalTranscriptRef)) =>
          IF isVoiceMode
          THEN transcript' = finalTranscriptRef
          ELSE transcript' = Empty /\ input' = input \o finalTranscriptRef]_vars

(* C21 happens: the engine of a manual session has ended after delivering a    *)
(* final chunk; the text is in the compose input and nothing was chained.      *)
C21_Witness ==
  /\ lastOp.op = "EngineEnded"
  /\ ~isVoiceModeRef /\ ~isVoiceMode /\ onSpeechEndRef = "null"
  /\ input = <<"a">>
  /\ messages = <<>> /\ calls = <<>> /\ graceTimers = <<>> /\ ~timeoutRef

(* C22: resetTranscript empties the observable transcript and the              *)
(* final-transcript accumulator and leaves the rest of the capture controller  *)
(* as it was: the tracked engine and every engine, the listening flag, the     *)
(* voice-mode flag, the registered callback, and the pending restart, silence  *)
(* and grace timers.                                                           *)
C22_ResetTranscriptOnlyClearsTexts ==
  [][lastOp'.op = "ResetTranscript" =>
       /\ transcript' = Empty /\ finalTranscriptRef' = Empty
       /\ UNCHANGED <<recognitionRef, engines, isListening, isVoiceModeRef, onSpeechEndRef>>
       /\ UNCHANGED <<timeoutRef, silenceTimeoutRef, graceTimers, probes>>]_vars

(* C22 happens: resetTranscript was called in a voice session whose engine is  *)
(* running with a final chunk accumulated and the silence timer pending; the   *)
(* texts are empty, the engine, the flags and the timer are still there.       *)
C22_Witness ==
  /\ lastOp = Op("ResetTranscript", TRUE)
  /\ transcript = Empty /\ finalTranscriptRef = Empty
  /\ recognitionRef # 0 /\ engines[recognitionRef] = "running" /\ isListening
  /\ isVoiceModeRef /\ onSpeechEndRef = "hvc"
  /\ silenceTimeoutRef = recognitionRef

(* C23: for every combination of the loading, speaking and listening flags,    *)
(* getCurrentVoiceState returns the state of the highest-priority flag that is *)
(* set, in the order loading, speaking, listening, and idle exactly when no    *)
(* flag is set.                                                                *)
C23_VoiceStateFollowsPriority ==
  voiceState.state # "none" =>
    /\ voiceState.isLoading => voiceState.state = "loading"
    /\ (~voiceState.isLoading /\ voiceState.isSpeaking) => voiceState.state = "speaking"
    /\ (~voiceState.isLoading /\ ~voiceState.isSpeaking /\ voiceState.isListening)
         => voiceState.state = "listening"
    /\ voiceState.state = "idle" <=>
         (~voiceState.isLoading /\ ~voiceState.isSpeaking /\ ~voiceState.isListening)

(* C23 happens: getCurrentVoiceState was called with the three flags set and   *)
(* returned loading.                                                           *)
C23_Witness ==
  /\ lastOp.op = "getCurrentVoiceState"
  /\ voiceState.isLoading /\ voiceState.isSpeaking /\ voiceState.isListening
  /\ voiceState.state = "loading"

(* C24: every call of sendChatMessage either returns the parsed body of the    *)
(* response or throws a ChatApiError, whichever step fails: the fetch, the     *)
(* status, the parsing of the body, the reading of its error field.            *)
C24_OnlyChatApiErrorEscapes ==
  apiCall.phase = "settled" =>
    IF apiCall.outcome.ok
    THEN /\ apiCall.response.fetch = "response"
         /\ apiCall.response.body.kind = "object"
         /\ apiCall.outcome.data = apiCall.response.body
    ELSE apiCall.outcome.error = "ChatApiError"

(* C24 happens: the body of a 2xx response was JSON null, so that reading its  *)
(* error field failed with a TypeError; the call threw a ChatApiError with the *)
(* unexpected-error text.                                                      *)
C24_Witness ==
  /\ apiCall.phase = "settled"
  /\ apiCall.response.fetch = "response" /\ apiCall.response.status = 200
  /\ apiCall.response.body.kind = "null"
  /\ apiCall.outcome = Thrown("ChatApiError", UnexpectedErrorText)

(* a settled call that met a 2xx response whose body is a JSON object *)
SettledOn2xxObject ==
  /\ apiCall.phase = "settled"
  /\ apiCall.response.fetch = "response"
  /\ apiCall.response.status >= 200 /\ apiCall.response.status <= 299
  /\ apiCall.response.body.kind = "object"

(* C25, as stated: for a 2xx response, sendChatMessage throws whenever the     *)
(* error field of the body is not null, and returns the body only when the     *)
(* field is null or absent.                                                    *)
C25_FailsOnEveryNonNullError ==
  SettledOn2xxObject =>
    (apiCall.outcome.ok <=> apiCall.response.body.error = JsNull)

(* C25, amended: for a 2xx response, sendChatMessage throws a ChatApiError     *)
(* carrying the error field exactly when that field is a non-empty string      *)
(* other than the word 'null'; when the field is null, absent, the empty       *)
(* string or the word 'null', it returns the body.                             *)
C25_FailsOnTruthyErrorOtherThanNullWord ==
  SettledOn2xxObject =>
    IF apiCall.response.body.error \in {JsNull, Empty, <<"null">>}
    THEN apiCall.outcome.ok /\ apiCall.outcome.data = apiCall.response.body
    ELSE /\ ~apiCall.outcome.ok
         /\ apiCall.outcome.error = "ChatApiError"
         /\ apiCall.outcome.message = apiCall.response.body.error

(* C25 happens: a 2xx response carried the word 'null' in its error field and  *)
(* the call returned the body.                                                 *)
C25_Witness ==
  /\ SettledOn2xxObject
  /\ apiCall.response.body.error = <<"null">>
  /\ apiCall.outcome.ok /\ apiCall.outcome.data = apiCall.response.body

(* C26: when a startListening call of voice mode resumes from the permission   *)
(* probe after the user has left voice mode, it creates no engine and the      *)
(* voice-mode flag of the capture controller stays false.                      *)
C26_ProbeResolvedAfterExitCreatesNothing ==
  [][(lastOp'.op = "EngineCreated" /\ lastOp'.flag /\ ~voiceModeRef) =>
       (UNCHANGED <<engines, recognitionRef>> /\ ~isVoiceModeRef')]_vars

(* a continuation of an earlier session fires: a completion callback on which   *)
(* stop() was called while it waited in its settle delay, or a recovery timer   *)
(* that was pending when the user left voice mode                              *)
EarlierContinuationStep ==
  \/ lastOp'.op = "SettleTimerFired" /\ lastOp'.flag
  \/ lastOp'.op = "RecoveryTimerFired" /\ staleRecoveries > 0

(* C27: a completion callback waiting in its settle delay, or a recovery timer, *)
(* that was created before the user left voice mode never calls                *)
(* restartListening after that exit, even when voice mode was entered again     *)
(* before it fires.                                                            *)
C27_EarlierContinuationNeverRestarts ==
  [][EarlierContinuationStep => UNCHANGED restartVars]_vars

(* an end or error event of an engine other than the tracked one, which is      *)
(* still running after the step                                                *)
LateEventOfReplacedEngine ==
  /\ lastOp'.op \in {"EngineEnded", "EngineError"}
  /\ recognitionRef # 0
  /\ engines'[recognitionRef] \in {"starting", "running"}

(* C28: whenever a capture engine is running, recognitionRef holds that engine; *)
(* and an end or error event delivered late by an engine that was replaced      *)
(* leaves the reference and the listening flag of the newer engine as they are. *)
C28_ReferenceDesignatesRunningEngine ==
  /\ [](\A e \in EngineIds : Running(e) => recognitionRef = e)
  /\ [][LateEventOfReplacedEngine =>
         (recognitionRef' = recognitionRef /\ isListening' = isListening)]_vars

(* voice mode is on, capture is supported, and in this session no permission    *)
(* probe has failed and no engine has reported a fatal error                    *)
LoopExpected ==
  mounted /\ isVoiceMode /\ voiceModeRef /\ speechRecognitionSupported /\ ~sessionFaulted

(* no timer of the loop is pending *)
NoLoopTimer ==
  /\ ~timeoutRef /\ silenceTimeoutRef = 0 /\ graceTimers = <<>>
  /\ settleTimers = {} /\ recoveryTimers = 0

(* nothing else is on its way either: no startListening call is suspended at   *)
(* the probe, and no engine and no utterance has an event left to deliver      *)
NothingInFlight ==
  /\ probes = <<>>
  /\ \A e \in EngineIds : engines[e] = "none"
  /\ \A u \in UttIds : utterances[u] = "none"

(* the loop has stalled *)
Stalled ==
  ~Capturing /\ ~VoiceCallInFlight /\ ~PlaybackActive /\ NoLoopTimer /\ NothingInFlight

(* C29: while voice mode stays on, with capture supported, permission granted   *)
(* and no fatal error, the loop never stalls: in no reachable state is it the   *)
(* case that no capture engine is running, no backend call is in flight, no     *)
(* playback is active and no restart, silence, grace, settle or recovery timer  *)
(* is pending (nor anything else on its way), whatever the backend replied.     *)
C29_LoopNeverStalls == LoopExpected => ~Stalled

(* the end or the error event of utterance a is delivered *)
EventOf(a) ==
  /\ lastOp'.op \in {"UtteranceEnded", "UtteranceErrored"}
  /\ utterances'[a] # utterances[a]

(* callback b is invoked, or handed to a settle timer, in this step *)
InvokedOrScheduled(b) ==
  \/ cbs'[b].invoked > cbs[b].invoked
  \/ \E t \in settleTimers' \ settleTimers : t.cb = b

(* C30: when speak(B, cbB) is called while utterance A, registered with cbA, is *)
(* being spoken, cbA is never invoked, and the end or error event that the      *)
(* cancellation raises on A neither invokes cbB nor schedules it.               *)
C30_CancelledUtteranceInvokesNothing ==
  /\ [](\A a \in UttIds : cbs[a].cut # 0 => cbs[a].invoked = 0)
  /\ [][\A a \in UttIds :
          (cbs[a].cut # 0 /\ EventOf(a)) => ~InvokedOrScheduled(cbs[a].cut)]_vars

(* C31: text recognized during a voice-mode session is never appended to the    *)
(* compose input: no step taken while voice mode is on, the exit from voice     *)
(* mode with a non-empty transcript included, changes the input.               *)
C31_VoiceTextNeverReachesInput ==
  [][isVoiceMode => input' = input]_vars
====
